---- MODULE Spec2Model ----
(***************************************************************************)
(* Model of scripts/train-model.py (the trainer) and scripts/predict.py    *)
(* (the predictor): two command-line programs that share one artifact, the *)
(* model bundle file.  A behaviour launches each program at most once, in  *)
(* either order, over a small file system.                                 *)
(*                                                                         *)
(* Library calls are modelled by what the library documents:               *)
(*  - a training set is its per-class row counts and its column count;     *)
(*  - train_test_split(stratify=y) allocates rows per class the way        *)
(*    sklearn's StratifiedShuffleSplit does (_approximate_mode);           *)
(*  - a fitted classifier is its sorted class list (classes_) and column   *)
(*    count; predict_proba returns some distribution over classes_, and    *)
(*    predict returns the class at the first maximum of it;                *)
(*  - probabilities are numerators over Denom (exact arithmetic);          *)
(*  - JSON text is a sequence of tokens.                                   *)
(***************************************************************************)
EXTENDS Integers, Sequences, FiniteSets, TLC

VARIABLES
    fs,        \* file system: path -> file content
    launched,  \* programs started so far in this behaviour
    trainedOn, \* <<>> or <<the labels of the file the bundle was trained on>>
    now,       \* wall clock read by datetime.now()
    prog,      \* running program: "none", "trainer", "predictor"
    pc,        \* position in main() of the running program
    argv,      \* raw command line of the running program
    args,      \* parsed arguments (argparse namespace)
    exitCode,  \* <<>> while running, <<code>> once the process exited
    stdout,    \* standard output of the current process
    stderr,    \* error stream of the current process
    raisedAt,  \* <<>> or <<step>>: the step whose exception reached the handler
    fs0,       \* file system when the current process started
    writes,    \* paths written by the current process, in order
    data,      \* trainer: <<>> or <<[X, y]>> returned by load_data
    split,     \* trainer: <<>> or <<[train, test]>> from train_test_split
    scaler,    \* <<>> or <<scaler object>>
    scaled,    \* trainer: partitions transformed so far, with the scaler used
    model,     \* <<>> or <<classifier object>>
    metrics,   \* trainer: <<>> or <<metrics>> returned by evaluate_model
    metadata,  \* predictor: metadata record loaded from the bundle
    features,  \* predictor: <<>> or <<value parsed from --features>>
    called,    \* predictor: <<>> or <<vector predict_signal was called with>>
    predicted, \* predictor: <<>> or <<locals of predict_signal>>
    result,    \* predictor: <<>> or <<prediction result>>
    steps      \* steps of main() the current process completed, in order

vars == <<fs, launched, trainedOn, now, prog, pc, argv, args, exitCode, stdout, stderr,
          raisedAt, fs0, writes, data, split, scaler, scaled, model, metrics,
          metadata, features, called, predicted, result, steps>>

-----------------------------------------------------------------------------
(* Bounds *)

\* largest number of rows of one class in a training file
MaxPerClass == 7

\* probabilities are k/Denom
Denom == 2

-----------------------------------------------------------------------------
(* Program constants *)

ExpectedFeatures == 13
CvFolds == 5

\* label domain the trainer reports on: Buy = 1, Hold = 0, Sell = -1
TrainLabels == {-1, 0, 1}

\* class codes of the predictor's table
label_map == [c \in {0, 1, 2} |-> CASE c = 0 -> "sell" [] c = 1 -> "hold" [] c = 2 -> "buy"]

\* the three row names of the classification report, in class order
target_names == <<"Sell", "Hold", "Buy">>

LabelUniverse == TrainLabels \cup DOMAIN label_map

Paths == {"model.joblib", "out.json"}

-----------------------------------------------------------------------------
(* Generic helpers *)

RECURSIVE SumOver(_, _)
SumOver(S, f) ==
    IF S = {} THEN 0
    ELSE LET e == CHOOSE e \in S : TRUE IN f[e] + SumOver(S \ {e}, f)

RECURSIVE SortedSeq(_)
\* np.unique / classes_: the elements of S in increasing order
SortedSeq(S) ==
    IF S = {} THEN <<>>
    ELSE LET m == CHOOSE m \in S : \A o \in S : m <= o
         IN <<m>> \o SortedSeq(S \ {m})

Range(s) == {s[i] : i \in DOMAIN s}

Classes(y) == {l \in DOMAIN y : y[l] > 0}

\* a line of progress output
Msg(m) == [msg |-> m]

NoFile == [kind |-> "absent"]
Garbage == [kind |-> "garbage"]
Partial == [kind |-> "partial"]


-----------------------------------------------------------------------------
(* Training files and the trainer's command line *)

NoRows == [l \in LabelUniverse |-> 0]

\* label vectors: rows per class, drawn from the documented label domain or
\* from the code domain of the predictor's table
LabelVectors ==
    {y \in [LabelUniverse -> 0..MaxPerClass] :
        \/ Classes(y) \subseteq TrainLabels
        \/ Classes(y) \subseteq DOMAIN label_map}

\* content of the file at --input.  defect:
\*   missing      no such file
\*   malformed    not JSON
\*   nokeys       JSON without 'features' / 'labels'
\*   mismatch     len(features) # len(labels)
\*   nonnumeric   a feature cell that is not a number
\*   continuous   labels that are non-integral floats
TrainingFiles ==
    {[defect |-> d, nfeat |-> ExpectedFeatures, y |-> NoRows] :
        d \in {"missing", "malformed", "nokeys"}}
    \cup
    {[defect |-> "none", nfeat |-> n, y |-> y] :
        n \in {ExpectedFeatures - 1, ExpectedFeatures},
        y \in LabelVectors}
    \cup
    {[defect |-> d, nfeat |-> ExpectedFeatures, y |-> y] :
        d \in {"mismatch", "nonnumeric", "continuous"},
        y \in {v \in LabelVectors : Classes(v) \subseteq TrainLabels}}

\* --test-size, in quarters (0.25, 0.5, 0.75: exact in binary floating point)
TestSizes == 1..3

TrainerArgv ==
    {[kind |-> k] : k \in {"usage", "help"}}
    \cup
    {[kind |-> "ok", input |-> f, output |-> o, test_size |-> q] :
        f \in TrainingFiles, o \in Paths, q \in TestSizes}

-----------------------------------------------------------------------------
(* Process life cycle *)

Fresh ==
    /\ exitCode' = <<>>
    /\ stdout' = <<>>
    /\ stderr' = <<>>
    /\ raisedAt' = <<>>
    /\ writes' = <<>>
    /\ args' = <<>>
    /\ data' = <<>>
    /\ split' = <<>>
    /\ scaler' = <<>>
    /\ scaled' = <<>>
    /\ model' = <<>>
    /\ metrics' = <<>>
    /\ metadata' = <<>>
    /\ features' = <<>>
    /\ called' = <<>>
    /\ predicted' = <<>>
    /\ result' = <<>>
    /\ steps' = <<>>

\* a bare "except:" would catch SystemExit as well
CaughtBare(exc) == TRUE

\* "except Exception": every exception class but the BaseException-only
\* ones (SystemExit) is caught
Caught(exc) == exc # "SystemExit"

\* an except clause that reports the error and still exits with 0
ExitStatusAlwaysZero(raised) == IF raised THEN 0 ELSE 0

\* sys.exit(1) in the except clause, sys.exit(0) at the end of the try block
ExitStatus(raised) == IF raised THEN 1 ELSE 0

\* an exception propagates to the except clause of main()
Raise(step) ==
    /\ pc' = "except"
    /\ raisedAt' = <<step>>

\* sys.exit(0) at the end of the try block raises SystemExit
SysExit0 ==
    IF Caught("SystemExit")
    THEN /\ Raise("sys.exit")
         /\ UNCHANGED exitCode
    ELSE /\ exitCode' = <<ExitStatus(FALSE)>>
         /\ pc' = "exited"
         /\ UNCHANGED raisedAt

Init ==
    /\ fs \in [Paths -> {NoFile, Garbage}]
    /\ launched = {}
    /\ trainedOn = <<>>
    /\ now = 0
    /\ prog = "none"
    /\ pc = "none"
    /\ argv = <<>>
    /\ args = <<>>
    /\ exitCode = <<>>
    /\ stdout = <<>>
    /\ stderr = <<>>
    /\ raisedAt = <<>>
    /\ fs0 = fs
    /\ writes = <<>>
    /\ data = <<>>
    /\ split = <<>>
    /\ scaler = <<>>
    /\ scaled = <<>>
    /\ model = <<>>
    /\ metrics = <<>>
    /\ metadata = <<>>
    /\ features = <<>>
    /\ called = <<>>
    /\ predicted = <<>>
    /\ result = <<>>
    /\ steps = <<>>

LaunchTrainer ==
    /\ prog = "none"
    /\ launched = {}
    /\ \E a \in TrainerArgv : argv' = <<a>>
    /\ prog' = "trainer"
    /\ pc' = "parse_args"
    /\ launched' = launched \cup {"trainer"}
    /\ now' = now + 1
    /\ fs0' = fs
    /\ Fresh
    /\ UNCHANGED <<fs, trainedOn>>

\* parser.parse_args(): outside the try block; argparse itself exits with
\* status 2 on a usage error and with status 0 after printing --help
ParseArgs(p, first) ==
    /\ prog = p
    /\ pc = "parse_args"
    /\ \/ /\ argv[1].kind = "usage"
          /\ stderr' = Append(stderr, Msg("usage"))
          /\ exitCode' = <<2>>
          /\ pc' = "exited"
          /\ UNCHANGED <<args, stdout>>
       \/ /\ argv[1].kind = "help"
          /\ stdout' = Append(stdout, Msg("help"))
          /\ exitCode' = <<0>>
          /\ pc' = "exited"
          /\ UNCHANGED <<args, stderr>>
       \/ /\ argv[1].kind = "ok"
          /\ args' = argv
          /\ pc' = first
          /\ UNCHANGED <<exitCode, stdout, stderr>>
    /\ UNCHANGED <<fs, launched, trainedOn, now, prog, argv, raisedAt, fs0, writes, data,
                   split, scaler, scaled, model, metrics, metadata, features,
                   called, predicted, result, steps>>

TrainerParseArgs == ParseArgs("trainer", "load_data")

PredictorParseArgs == ParseArgs("predictor", "load_model")

\* except Exception as e: message and traceback to the error stream, exit 1
ExceptHandler ==
    /\ pc = "except"
    /\ stderr' = stderr \o <<Msg("Error"), Msg("traceback")>>
    /\ exitCode' = <<ExitStatus(TRUE)>>
    /\ pc' = "exited"
    /\ UNCHANGED <<fs, launched, trainedOn, now, prog, argv, args, stdout, raisedAt, fs0,
                   writes, data, split, scaler, scaled, model, metrics,
                   metadata, features, called, predicted, result, steps>>

\* the process is gone: its memory and streams with it
Terminate ==
    /\ pc = "exited"
    /\ prog' = "none"
    /\ pc' = "none"
    /\ argv' = <<>>
    /\ fs0' = fs
    /\ Fresh
    /\ UNCHANGED <<fs, launched, trainedOn, now>>

-----------------------------------------------------------------------------
(* Trainer: scripts/train-model.py *)

\* ceil(test_size * n_samples), test_size = q/4
NTest(n_samples, q) == (q * n_samples + 3) \div 4

\* sklearn _approximate_mode: per class floor(count * n_draws / total), the
\* rows still missing go to the classes with the largest remainders, ties
\* broken at random
ApproximateMode(class_counts, n_draws) ==
    LET total == SumOver(DOMAIN class_counts, class_counts)
        floored == [l \in DOMAIN class_counts |-> (class_counts[l] * n_draws) \div total]
        remainder == [l \in DOMAIN class_counts |-> (class_counts[l] * n_draws) % total]
        need_to_add == n_draws - SumOver(DOMAIN floored, floored)
    IN {[l \in DOMAIN class_counts |-> floored[l] + (IF l \in add THEN 1 ELSE 0)] :
          add \in {a \in SUBSET Classes(class_counts) :
                     /\ Cardinality(a) = need_to_add
                     /\ \A i \in a : \A j \in Classes(class_counts) \ a :
                            remainder[i] >= remainder[j]}}

\* train_test_split(X, y, test_size, random_state=42, stratify=y): the set of
\* partitions it can return; empty when it raises ValueError
TrainTestSplit(X, y, q) ==
    LET n_samples == SumOver(DOMAIN y, y)
        n_test == NTest(n_samples, q)
        n_train == n_samples - n_test
        n_classes == Cardinality(Classes(y))
    IN IF \/ X.rows # n_samples
          \/ n_samples = 0
          \/ n_train = 0
          \/ \E l \in Classes(y) : y[l] < 2
          \/ n_train < n_classes
          \/ n_test < n_classes
       THEN {}
       ELSE UNION {{[train |-> n_i, test |-> t_i] :
                      t_i \in ApproximateMode([l \in DOMAIN y |-> y[l] - n_i[l]], n_test)} :
                   n_i \in ApproximateMode(y, n_train)}

\* fitting the scaler on all rows, before the split
ScalerFitInputAll == "X"

\* the partition the scaler is fitted on
ScalerFitInput == "X_train"

\* the partitions the fitted scaler transforms, in order
ScalerTransformInputs == <<"X_train", "X_test">>

\* the scaled partition the classifier is fitted on
ClassifierFitInput == "X_train_scaled"

\* StandardScaler().fit_transform(part)
FitScaler(X, part) == [n_features_in_ |-> X.nfeat, fit_on |-> <<part>>]

\* scaler.transform(part)
Transform(sc, part) == [name |-> part \o "_scaled", src |-> part, by |-> sc]

\* train_model: RandomForestClassifier(...).fit(X_train_scaled, y_train);
\* classes_ is the sorted list of the labels present in y_train
TrainModel(Xs, y_train) ==
    [classes_ |-> SortedSeq(Classes(y_train)),
     n_features_in_ |-> Xs.by.n_features_in_,
     fit_on |-> <<Xs>>]

\* classification_report(y_test, y_pred, target_names=[3 names]) raises
\* unless the labels seen in y_test and y_pred are exactly three
ReportRaises(y_test, y_pred) ==
    Cardinality(Classes(y_test) \cup y_pred) # Len(target_names)

\* cross_val_score(model, X_test, y_test, cv=5) works on a clone of the
\* model; its StratifiedKFold raises when every class of y_test has fewer
\* members than folds
CrossValRaises(y_test) ==
    \A l \in Classes(y_test) : CvFolds > y_test[l]

\* the estimator passed to cross_val_score after the call: the folds are
\* fitted on clones, the estimator itself is left as it was
CrossValScore(m, X) == m

\* the mapping save_model dumps
ModelData(m, sc, t) ==
    [kind |-> "bundle",
     model |-> m,
     scaler |-> sc,
     metadata |-> [trained_at |-> t,
                   model_type |-> "RandomForestClassifier",
                   version |-> "1.0.0"]]

\* saving the bundle before the evaluation
TrainerFlowSaveFirst ==
    <<"load_data", "split", "scale", "train_model", "save_model",
      "evaluate_model", "finish">>

\* the order of the steps inside the try block of main()
TrainerFlow ==
    <<"load_data", "split", "scale", "train_model", "evaluate_model",
      "save_model", "finish">>

\* the step that follows step s in main()
After(s) ==
    LET i == CHOOSE i \in DOMAIN TrainerFlow : TrainerFlow[i] = s
    IN TrainerFlow[i + 1]

\* the element of the sequence of scaled partitions called name
ScaledPart(parts, name) ==
    parts[CHOOSE i \in DOMAIN parts : parts[i].name = name]

TrainerFrame == UNCHANGED <<launched, trainedOn, now, prog, argv, args, exitCode, stderr,
                            fs0, metadata, features, called, predicted, result>>

\* step s completed
Done(s) == steps' = Append(steps, s)

\* X, y = load_data(args.input)
LoadData ==
    /\ prog = "trainer"
    /\ pc = "load_data"
    /\ LET f == args[1].input IN
       IF f.defect \in {"missing", "malformed", "nokeys"}
       THEN /\ Raise("load_data")
            /\ UNCHANGED <<data, stdout, steps>>
       ELSE /\ data' = <<[X |-> [rows |-> SumOver(DOMAIN f.y, f.y)
                                          + (IF f.defect = "mismatch" THEN 1 ELSE 0),
                                 nfeat |-> f.nfeat,
                                 numeric |-> f.defect # "nonnumeric"],
                          y |-> f.y,
                          integral |-> f.defect # "continuous"]>>
            /\ stdout' = Append(stdout, Msg("Loaded"))
            /\ pc' = After("load_data")
            /\ Done("load_data")
            /\ UNCHANGED raisedAt
    /\ UNCHANGED <<fs, writes, split, scaler, scaled, model, metrics>>
    /\ TrainerFrame

\* X_train, X_test, y_train, y_test = train_test_split(...)
Split ==
    /\ prog = "trainer"
    /\ pc = "split"
    /\ LET parts == TrainTestSplit(data[1].X, data[1].y, args[1].test_size) IN
       IF parts = {}
       THEN /\ Raise("split")
            /\ UNCHANGED <<split, stdout, steps>>
       ELSE /\ \E s \in parts : split' = <<s>>
            /\ stdout' = Append(stdout, Msg("Train set"))
            /\ pc' = After("split")
            /\ Done("split")
            /\ UNCHANGED raisedAt
    /\ UNCHANGED <<fs, writes, data, scaler, scaled, model, metrics>>
    /\ TrainerFrame

\* scaler = StandardScaler(); fit_transform(X_train); transform(X_test)
Scale ==
    /\ prog = "trainer"
    /\ pc = "scale"
    /\ IF ~data[1].X.numeric
       THEN /\ Raise("scale")
            /\ UNCHANGED <<scaler, scaled, steps>>
       ELSE LET sc == FitScaler(data[1].X, ScalerFitInput) IN
            /\ scaler' = <<sc>>
            /\ scaled' = [i \in DOMAIN ScalerTransformInputs |->
                             Transform(sc, ScalerTransformInputs[i])]
            /\ pc' = After("scale")
            /\ Done("scale")
            /\ UNCHANGED raisedAt
    /\ UNCHANGED <<fs, writes, data, split, model, metrics, stdout>>
    /\ TrainerFrame

\* model = train_model(X_train_scaled, y_train)
FitModel ==
    /\ prog = "trainer"
    /\ pc = "train_model"
    /\ IF ~data[1].integral
       THEN /\ Raise("train_model")
            /\ UNCHANGED <<model, stdout, steps>>
       ELSE /\ model' = <<TrainModel(ScaledPart(scaled, ClassifierFitInput),
                                     split[1].train)>>
            /\ stdout' = Append(stdout, Msg("Model training complete"))
            /\ pc' = After("train_model")
            /\ Done("train_model")
            /\ UNCHANGED raisedAt
    /\ UNCHANGED <<fs, writes, data, split, scaler, scaled, metrics>>
    /\ TrainerFrame

\* metrics = evaluate_model(model, X_test_scaled, y_test); the labels
\* model.predict returns on the test rows are some of model.classes_
EvaluateModel ==
    /\ prog = "trainer"
    /\ pc = "evaluate_model"
    /\ \E y_pred \in SUBSET Range(model[1].classes_) :
         /\ y_pred # {}
         /\ IF \/ ReportRaises(split[1].test, y_pred)
               \/ CrossValRaises(split[1].test)
            THEN /\ Raise("evaluate_model")
                 /\ UNCHANGED <<metrics, steps>>
            ELSE /\ metrics' = <<[accuracy |-> "accuracy",
                                  feature_importance |-> "feature_importance"]>>
                 /\ pc' = After("evaluate_model")
                 /\ Done("evaluate_model")
                 /\ UNCHANGED raisedAt
    /\ model' = <<CrossValScore(model[1], ScaledPart(scaled, "X_test_scaled"))>>
    /\ stdout' = Append(stdout, Msg("Evaluating Model"))
    /\ UNCHANGED <<fs, writes, data, split, scaler, scaled>>
    /\ TrainerFrame

\* save_model(model, scaler, args.output): mkdir the parent, joblib.dump.
\* An I/O error either leaves the path untouched (mkdir or open failed) or
\* leaves a truncated file (the dump failed part-way).
SaveModel ==
    /\ prog = "trainer"
    /\ pc = "save_model"
    /\ LET out == args[1].output IN
       \/ /\ fs' = [fs EXCEPT ![out] = ModelData(model[1], scaler[1], now)]
          /\ writes' = Append(writes, out)
          /\ stdout' = Append(stdout, Msg("Model saved"))
          /\ pc' = After("save_model")
          /\ Done("save_model")
          /\ trainedOn' = <<Classes(data[1].y)>>
          /\ UNCHANGED raisedAt
       \/ /\ Raise("save_model")
          /\ UNCHANGED <<fs, writes, stdout, steps, trainedOn>>
       \/ /\ fs' = [fs EXCEPT ![out] = Partial]
          /\ writes' = Append(writes, out)
          /\ Raise("save_model")
          /\ UNCHANGED <<stdout, steps, trainedOn>>
    /\ UNCHANGED <<data, split, scaler, scaled, model, metrics>>
    /\ UNCHANGED <<launched, now, prog, argv, args, exitCode, stderr,
                   fs0, metadata, features, called, predicted, result>>

\* print the final results; sys.exit(0).  SystemExit is not an Exception, so
\* the except clause does not see it.
TrainerFinish ==
    /\ prog = "trainer"
    /\ pc = "finish"
    /\ stdout' = Append(stdout, Msg("Training Complete"))
    /\ Done("finish")
    /\ SysExit0
    /\ UNCHANGED <<fs, launched, trainedOn, now, prog, argv, args, stderr, fs0,
                   writes, data, split, scaler, scaled, model, metrics,
                   metadata, features, called, predicted, result>>

-----------------------------------------------------------------------------
(* JSON text: a sequence of tokens *)

Punct(c) == [p |-> c]
Str(x) == [str |-> x]
Num(k) == [num |-> k]
\* white space: a newline followed by n spaces, or (n = -1) a single space
Ws(n) == [ws |-> n]

\* JSON values: Num(k), Str(x), Arr(sequence of values), Obj(key -> value)
Arr(v) == [arr |-> v]
Obj(f) == [obj |-> f]
IsArr(v) == DOMAIN v = {"arr"}

IsWs(tok) == DOMAIN tok = {"ws"}
IsNum(tok) == DOMAIN tok = {"num"}
IsStr(tok) == DOMAIN tok = {"str"}

RECURSIVE Join(_, _)
\* the token sequences of items, separated by sep
Join(items, sep) ==
    IF items = <<>> THEN <<>>
    ELSE IF Len(items) = 1 THEN items[1]
    ELSE items[1] \o sep \o Join(Tail(items), sep)

\* an indented writer that forgets the commas between members
DumpObjectNoSeparator(members, indent, level) ==
    LET item(m) == <<Str(m[1]), Punct(":"), Ws(-1)>> \o m[2]
        items == [i \in DOMAIN members |-> item(members[i])]
    IN IF indent = 0
       THEN <<Punct("{")>> \o Join(items, <<Punct(","), Ws(-1)>>) \o <<Punct("}")>>
       ELSE <<Punct("{"), Ws(indent * (level + 1))>>
            \o Join(items, <<Ws(indent * (level + 1))>>)
            \o <<Ws(indent * level), Punct("}")>>

\* one JSON object: members is a sequence of <<key, value tokens>>.  Without
\* indent the separators are ", " and ": "; with indent each member starts
\* on a line of its own, indent * (level + 1) spaces in.
DumpObject(members, indent, level) ==
    LET item(m) == <<Str(m[1]), Punct(":"), Ws(-1)>> \o m[2]
        items == [i \in DOMAIN members |-> item(members[i])]
    IN IF indent = 0
       THEN <<Punct("{")>> \o Join(items, <<Punct(","), Ws(-1)>>) \o <<Punct("}")>>
       ELSE <<Punct("{"), Ws(indent * (level + 1))>>
            \o Join(items, <<Punct(","), Ws(indent * (level + 1))>>)
            \o <<Ws(indent * level), Punct("}")>>

\* json.dumps(result) / json.dump(result, f, indent=2) for a prediction
\* result; keys in insertion order
JsonDumps(r, indent) ==
    DumpObject(<< <<"signal", <<Str(r.signal)>> >>,
                  <<"confidence", <<Num(r.confidence)>> >>,
                  <<"probabilities",
                    DumpObject(<< <<"buy", <<Num(r.probabilities.buy)>> >>,
                                  <<"hold", <<Num(r.probabilities.hold)>> >>,
                                  <<"sell", <<Num(r.probabilities.sell)>> >> >>,
                               indent, 1)>> >>,
               indent, 0)

\* the tokens of text that are not white space
Strip(text) == SelectSeq(text, LAMBDA tok : ~IsWs(tok))

ParseFail == [ok |-> FALSE, val |-> <<>>, next |-> 0]
ParseOk(v, n) == [ok |-> TRUE, val |-> v, next |-> n]

\* the object a sequence of <<key, value>> members denotes (last key wins)
ObjectOf(members) ==
    [k \in {members[i][1] : i \in DOMAIN members} |->
        members[CHOOSE i \in DOMAIN members :
                   /\ members[i][1] = k
                   /\ \A j \in DOMAIN members : members[j][1] = k => j <= i][2]]

RECURSIVE ParseValue(_, _)
RECURSIVE ParseElements(_, _, _)
RECURSIVE ParseMembers(_, _, _)

\* recursive-descent parser over white-space-free tokens t, from position i
ParseValue(t, i) ==
    IF i > Len(t) THEN ParseFail
    ELSE IF IsNum(t[i]) \/ IsStr(t[i]) THEN ParseOk(t[i], i + 1)
    ELSE IF t[i] = Punct("[")
         THEN IF i + 1 <= Len(t) /\ t[i + 1] = Punct("]")
              THEN ParseOk(Arr(<<>>), i + 2)
              ELSE ParseElements(t, i + 1, <<>>)
    ELSE IF t[i] = Punct("{")
         THEN IF i + 1 <= Len(t) /\ t[i + 1] = Punct("}")
              THEN ParseOk(Obj(<<>>), i + 2)
              ELSE ParseMembers(t, i + 1, <<>>)
    ELSE ParseFail

ParseElements(t, i, acc) ==
    LET v == ParseValue(t, i) IN
    IF ~v.ok \/ v.next > Len(t) THEN ParseFail
    ELSE IF t[v.next] = Punct(",") THEN ParseElements(t, v.next + 1, Append(acc, v.val))
    ELSE IF t[v.next] = Punct("]") THEN ParseOk(Arr(Append(acc, v.val)), v.next + 1)
    ELSE ParseFail

ParseMembers(t, i, acc) ==
    IF i + 1 > Len(t) \/ ~IsStr(t[i]) \/ t[i + 1] # Punct(":") THEN ParseFail
    ELSE LET v == ParseValue(t, i + 2) IN
         IF ~v.ok \/ v.next > Len(t) THEN ParseFail
         ELSE IF t[v.next] = Punct(",")
              THEN ParseMembers(t, v.next + 1, Append(acc, <<t[i].str, v.val>>))
         ELSE IF t[v.next] = Punct("}")
              THEN ParseOk(Obj(ObjectOf(Append(acc, <<t[i].str, v.val>>))), v.next + 1)
         ELSE ParseFail

\* json.loads(text): <<value>>, or <<>> when it raises JSONDecodeError
JsonLoads(text) ==
    LET t == Strip(text)
        r == ParseValue(t, 1)
    IN IF r.ok /\ r.next = Len(t) + 1 THEN <<r.val>> ELSE <<>>

\* the text "[e1, e2, ..., en]" of the element texts e
ArrayText(e) ==
    <<Punct("[")>> \o Join(e, <<Punct(","), Ws(-1)>>) \o <<Punct("]")>>

\* the JSON value json.dumps writes for a prediction result
JsonValue(r) ==
    Obj([signal |-> Str(r.signal),
         confidence |-> Num(r.confidence),
         probabilities |-> Obj([buy |-> Num(r.probabilities.buy),
                                hold |-> Num(r.probabilities.hold),
                                sell |-> Num(r.probabilities.sell)])])

-----------------------------------------------------------------------------
(* Predictor: scripts/predict.py *)

\* the numbers 1..n as JSON number texts
NumberTexts(n) == [i \in 1..n |-> <<Num(i)>>]

\* strings given as --features: arrays of 0, 12, 13 and 14 numbers, a
\* 13-number array nested in an array, an array cut short, a bare number
FeatureTexts ==
    {ArrayText(NumberTexts(n)) :
        n \in {0, ExpectedFeatures - 1, ExpectedFeatures, ExpectedFeatures + 1}}
    \cup {ArrayText(<<ArrayText(NumberTexts(ExpectedFeatures))>>),
          SubSeq(ArrayText(NumberTexts(ExpectedFeatures)), 1, ExpectedFeatures),
          <<Num(ExpectedFeatures)>>}

\* --output: not given (None), the empty string, or a path
OutputArgs == {<<>>, <<"">>} \cup {<<o>> : o \in Paths}

PredictorArgv ==
    {[kind |-> k] : k \in {"usage", "help"}}
    \cup
    {[kind |-> "ok", model |-> m, features |-> f, output |-> o] :
        m \in Paths, f \in FeatureTexts, o \in OutputArgs}

\* truth value of args.output in "if args.output:"
Truthy(o) == o # <<>> /\ o[1] # ""

\* np.array(features).reshape(1, -1): <<row>>, the numbers of a flat or
\* rectangular nested list in order; <<>> when numpy raises
Reshape(f) ==
    IF ~IsArr(f) THEN <<>>
    ELSE IF \A i \in DOMAIN f.arr : IsNum(f.arr[i])
         THEN <<[i \in DOMAIN f.arr |-> f.arr[i].num]>>
    ELSE IF /\ \A i \in DOMAIN f.arr : IsArr(f.arr[i])
            /\ \A i, j \in DOMAIN f.arr : Len(f.arr[i].arr) = Len(f.arr[j].arr)
            /\ \A i \in DOMAIN f.arr : \A k \in DOMAIN f.arr[i].arr : IsNum(f.arr[i].arr[k])
         THEN LET w == Len(f.arr[1].arr)
              IN <<[k \in 1..(Len(f.arr) * w) |->
                      f.arr[((k - 1) \div w) + 1].arr[((k - 1) % w) + 1].num]>>
    ELSE <<>>

\* the class distributions predict_proba can return for n classes
Distributions(n) ==
    {p \in [1..n -> 0..Denom] : SumOver(1..n, p) = Denom}

\* np.max(probabilities)
MaxOf(p) == CHOOSE v \in Range(p) : \A o \in Range(p) : v >= o

\* RandomForestClassifier.predict: the class at the first maximum of the
\* distribution
ArgMax(p) == CHOOSE i \in DOMAIN p : p[i] = MaxOf(p) /\ \A j \in DOMAIN p : p[j] = MaxOf(p) => i <= j

\* a table keyed by the training labels -1, 0, 1 instead of the codes 0, 1, 2
LabelMapGetTrainLabels(prediction) ==
    IF prediction + 1 \in DOMAIN label_map THEN label_map[prediction + 1] ELSE "hold"

\* label_map.get(prediction, 'hold')
LabelMapGet(prediction) ==
    IF prediction \in DOMAIN label_map THEN label_map[prediction] ELSE "hold"

\* probs_dict: probabilities[2], [1], [0] (0-based) as buy, hold, sell;
\* <<>> when an index is out of range
ProbsDict(probabilities) ==
    IF Len(probabilities) < 3 THEN <<>>
    ELSE <<[buy |-> probabilities[3], hold |-> probabilities[2], sell |-> probabilities[1]]>>

\* predict_signal(model, scaler, features), proba being what the classifier
\* answers for the scaled row.  ret: <<result>>, or <<>> when it raises;
\* locals: the values computed once the classifier has answered
PredictSignal(m, sc, f, proba) ==
    LET X == Reshape(f) IN
    IF X = <<>> THEN [locals |-> <<>>, ret |-> <<>>]
    ELSE IF Len(X[1]) # sc.n_features_in_ \/ Len(X[1]) # m.n_features_in_
         THEN [locals |-> <<>>, ret |-> <<>>]
    ELSE LET prediction == m.classes_[ArgMax(proba)]
             signal == LabelMapGet(prediction)
             confidence == MaxOf(proba)
             probs_dict == ProbsDict(proba)
         IN [locals |-> <<[X |-> X[1],
                           prediction |-> prediction,
                           probabilities |-> proba,
                           signal |-> signal,
                           confidence |-> confidence]>>,
             ret |-> IF probs_dict = <<>> THEN <<>>
                     ELSE <<[signal |-> signal,
                             confidence |-> confidence,
                             probabilities |-> probs_dict[1]]>>]

PredictorFrame == UNCHANGED <<launched, trainedOn, now, prog, argv, args, exitCode, fs0,
                              data, split, scaled, metrics>>

\* writing the result over the model file
OutputPathModel(a) == a.model

\* the path the result file is written to
OutputPath(a) == a.output[1]

LaunchPredictor ==
    /\ prog = "none"
    /\ "predictor" \notin launched
    /\ \E a \in PredictorArgv : argv' = <<a>>
    /\ prog' = "predictor"
    /\ pc' = "parse_args"
    /\ launched' = launched \cup {"predictor"}
    /\ now' = now + 1
    /\ fs0' = fs
    /\ Fresh
    /\ UNCHANGED <<fs, trainedOn>>

\* model, scaler, metadata = load_model(args.model); joblib.load raises on
\* a missing file and on a file that is not a bundle
LoadModel ==
    /\ prog = "predictor"
    /\ pc = "load_model"
    /\ LET file == fs[args[1].model] IN
       IF file.kind # "bundle"
       THEN /\ Raise("load_model")
            /\ stderr' = Append(stderr, Msg("Loading model"))
            /\ UNCHANGED <<model, scaler, metadata, steps>>
       ELSE /\ model' = <<file.model>>
            /\ scaler' = <<file.scaler>>
            /\ metadata' = <<file.metadata>>
            /\ stderr' = stderr \o <<Msg("Loading model"), Msg("Model metadata")>>
            /\ pc' = "parse_features"
            /\ Done("load_model")
            /\ UNCHANGED raisedAt
    /\ UNCHANGED <<fs, writes, stdout, features, called, predicted, result>>
    /\ PredictorFrame

\* a length check that rejects the vector
LengthCheckStrict(n) == [warn |-> n # ExpectedFeatures, abort |-> n # ExpectedFeatures]

\* "if len(features) != 13": a warning is printed, nothing is raised
LengthCheck(n) == [warn |-> n # ExpectedFeatures, abort |-> FALSE]

\* features = json.loads(args.features); len(features) != 13 only warns
ParseFeatures ==
    /\ prog = "predictor"
    /\ pc = "parse_features"
    /\ LET v == JsonLoads(args[1].features) IN
       IF v = <<>>
       THEN /\ Raise("json.loads")
            /\ UNCHANGED <<features, stderr, steps>>
       ELSE /\ features' = v
            /\ IF ~IsArr(v[1])
               THEN /\ Raise("len")
                    /\ UNCHANGED <<stderr, steps>>
               ELSE LET chk == LengthCheck(Len(v[1].arr)) IN
                    /\ stderr' = IF chk.warn
                                 THEN Append(stderr, Msg("Warning"))
                                 ELSE stderr
                    /\ IF chk.abort
                       THEN /\ Raise("len")
                            /\ UNCHANGED steps
                       ELSE /\ pc' = "predict_signal"
                            /\ Done("parse_features")
                            /\ UNCHANGED raisedAt
    /\ UNCHANGED <<fs, writes, stdout, model, scaler, metadata, called,
                   predicted, result>>
    /\ PredictorFrame

\* result = predict_signal(model, scaler, features)
Predict ==
    /\ prog = "predictor"
    /\ pc = "predict_signal"
    /\ called' = features
    /\ \E proba \in Distributions(Len(model[1].classes_)) :
         LET r == PredictSignal(model[1], scaler[1], features[1], proba) IN
         /\ predicted' = r.locals
         /\ IF r.ret = <<>>
            THEN /\ Raise("predict_signal")
                 /\ UNCHANGED <<result, steps>>
            ELSE /\ result' = r.ret
                 /\ pc' = "output"
                 /\ Done("predict_signal")
                 /\ UNCHANGED raisedAt
    /\ UNCHANGED <<fs, writes, stdout, stderr, model, scaler, metadata, features>>
    /\ PredictorFrame

\* if args.output: write the file (indent=2) else print to standard output.
\* open() may fail, leaving the path untouched, and the write may fail after
\* open() truncated the file.
Output ==
    /\ prog = "predictor"
    /\ pc = "output"
    /\ IF Truthy(args[1].output)
       THEN LET out == OutputPath(args[1]) IN
            \/ /\ fs' = [fs EXCEPT ![out] = [kind |-> "text", text |-> JsonDumps(result[1], 2)]]
               /\ writes' = Append(writes, out)
               /\ stderr' = Append(stderr, Msg("Prediction saved"))
               /\ pc' = "finish"
               /\ Done("output")
               /\ UNCHANGED <<stdout, raisedAt>>
            \/ /\ Raise("output")
               /\ UNCHANGED <<fs, writes, stdout, stderr, steps>>
            \/ /\ fs' = [fs EXCEPT ![out] = [kind |-> "text", text |-> <<>>]]
               /\ writes' = Append(writes, out)
               /\ Raise("output")
               /\ UNCHANGED <<stdout, stderr, steps>>
       ELSE /\ stdout' = Append(stdout, [json |-> JsonDumps(result[1], 0)])
            /\ pc' = "finish"
            /\ Done("output")
            /\ UNCHANGED <<fs, writes, stderr, raisedAt>>
    /\ UNCHANGED <<model, scaler, metadata, features, called, predicted, result>>
    /\ PredictorFrame

\* sys.exit(0)
PredictorFinish ==
    /\ prog = "predictor"
    /\ pc = "finish"
    /\ Done("finish")
    /\ SysExit0
    /\ UNCHANGED <<fs, launched, trainedOn, now, prog, argv, args, stdout, stderr,
                   fs0, writes, data, split, scaler, scaled, model, metrics,
                   metadata, features, called, predicted, result>>

Next ==
    \/ LaunchTrainer
    \/ TrainerParseArgs
    \/ LoadData
    \/ Split
    \/ Scale
    \/ FitModel
    \/ EvaluateModel
    \/ SaveModel
    \/ TrainerFinish
    \/ LaunchPredictor
    \/ PredictorParseArgs
    \/ LoadModel
    \/ ParseFeatures
    \/ Predict
    \/ Output
    \/ PredictorFinish
    \/ ExceptHandler
    \/ Terminate

Spec == Init /\ [][Next]_vars

-----------------------------------------------------------------------------
(* Properties *)

\* the steps of the predictor's try block, in order
PredictorFlow ==
    <<"load_model", "parse_features", "predict_signal", "output", "finish">>

Signals == {"buy", "hold", "sell"}

ParsedOk == argv # <<>> /\ argv[1].kind = "ok"

TrainerExited == prog = "trainer" /\ pc = "exited"

PredictorExited == prog = "predictor" /\ pc = "exited"

\* the flat array of the numbers 1..13 was passed to predict_signal
CalledWithExpectedVector ==
    /\ called # <<>>
    /\ called[1] = Arr([i \in 1..ExpectedFeatures |-> Num(i)])

\* a prediction result in the shape of the data model: signal one of the
\* three labels, confidence and the three probabilities in [0, 1], the
\* probabilities summing to 1 (numerators over Denom)
WellFormedResult(r) ==
    /\ r.signal \in Signals
    /\ r.confidence \in 0..Denom
    /\ DOMAIN r.probabilities = Signals
    /\ \A k \in Signals : r.probabilities[k] \in 0..Denom
    /\ r.probabilities.buy + r.probabilities.hold + r.probabilities.sell = Denom

\* C1: for every bundle a successful trainer run wrote from labels in
\* {-1, 0, 1} (and 13 columns) and the 13-number vector, predict_signal
\* returns a well-formed result
C1_PredictorAcceptsTrainerBundle ==
    ( /\ prog = "predictor"
      /\ CalledWithExpectedVector
      /\ trainedOn # <<>>
      /\ trainedOn[1] \subseteq TrainLabels
      /\ model[1].n_features_in_ = ExpectedFeatures )
    => /\ result # <<>>
       /\ WellFormedResult(result[1])

\* C2: the signal is the table entry of the predicted class code, 0 -> sell,
\* 1 -> hold, 2 -> buy, and "hold" for any other code; the lookup never
\* raises, and the returned result carries that signal
C2_SignalFromTable ==
    predicted # <<>> =>
        LET c == predicted[1].prediction
            sig == predicted[1].signal
        IN /\ c = 0 => sig = "sell"
           /\ c = 1 => sig = "hold"
           /\ c = 2 => sig = "buy"
           /\ c \notin {0, 1, 2} => sig = "hold"
           /\ result # <<>> => result[1].signal = sig

C2_Witness ==
    /\ predicted # <<>>
    /\ predicted[1].prediction = 2
    /\ result # <<>>
    /\ result[1].signal = "buy"

\* the steps of the try block of the running program
FlowOf(p) == IF p = "trainer" THEN TrainerFlow ELSE PredictorFlow

\* C3 as stated: every run ends with exit code 0 or 1; 0 exactly when every
\* step completed, 1 on an error at any step from argument parsing onward
C3_ExitCodeZeroOrOne ==
    pc = "exited" =>
        /\ exitCode[1] \in {0, 1}
        /\ exitCode[1] = 0 <=> steps = FlowOf(prog)
        /\ (raisedAt # <<>> \/ argv[1].kind = "usage") => exitCode[1] = 1

\* C3 amended: every run ends with exit code 0, 1 or 2.  argparse ends the
\* run before the try block, with 2 on a usage error and with 0 for --help.
\* Once the arguments are parsed the exit code is 0 exactly when every step
\* completed and 1 exactly when a step raised; the sys.exit(0) of the try
\* block is never turned into 1.
C3_ExitCodes ==
    pc = "exited" =>
        /\ exitCode[1] \in {0, 1, 2}
        /\ argv[1].kind = "usage" => exitCode[1] = 2 /\ steps = <<>>
        /\ argv[1].kind = "help" => exitCode[1] = 0 /\ steps = <<>>
        /\ argv[1].kind = "ok" =>
              /\ exitCode[1] \in {0, 1}
              /\ exitCode[1] = 0 <=> steps = FlowOf(prog)
              /\ exitCode[1] = 1 <=> raisedAt # <<>>
              /\ steps = FlowOf(prog) => raisedAt = <<>>

C3_Witness ==
    /\ pc = "exited"
    /\ argv[1].kind = "usage"
    /\ exitCode = <<2>>

\* the parsed --features value is an array whose length is not 13
LengthMismatch ==
    /\ prog = "predictor"
    /\ features # <<>>
    /\ IsArr(features[1])
    /\ Len(features[1].arr) # ExpectedFeatures

\* C4: a features array of a length other than 13 does not abort the run:
\* the warning is on the error stream, predict_signal is called with the
\* vector as parsed, and the run ends with a result and exit code 0 or with
\* exit code 1 from the handler
C4_LengthMismatchOnlyWarns ==
    LengthMismatch =>
        /\ Msg("Warning") \in Range(stderr)
        /\ raisedAt # <<"len">>
        /\ pc # "predict_signal" => called = features
        /\ predicted # <<>> =>
              predicted[1].X = [i \in DOMAIN predicted[1].X |-> i]
        /\ pc = "exited" =>
              \/ /\ exitCode = <<0>>
                 /\ result # <<>>
                 /\ steps = PredictorFlow
              \/ /\ exitCode = <<1>>
                 /\ raisedAt \in {<<"predict_signal">>, <<"output">>}
                 /\ Msg("traceback") \in Range(stderr)

C4_Witness ==
    /\ LengthMismatch
    /\ pc = "exited"
    /\ exitCode = <<0>>
    /\ result # <<>>
    /\ Msg("Warning") \in Range(stderr)

\* the input JSON of the running program is malformed
MalformedInput ==
    /\ ParsedOk
    /\ \/ /\ prog = "trainer"
          /\ argv[1].input.defect = "malformed"
       \/ /\ prog = "predictor"
          /\ JsonLoads(argv[1].features) = <<>>

\* C5: a run on malformed input JSON ends with exit code 1, leaves every
\* file (the one at --output included) as it was, and prints no result
C5_MalformedInputLeavesOutput ==
    MalformedInput =>
        /\ \A p \in Paths : fs[p] = fs0[p]
        /\ writes = <<>>
        /\ \A i \in DOMAIN stdout : "json" \notin DOMAIN stdout[i]
        /\ pc = "exited" => exitCode = <<1>>

C5_Witness ==
    /\ MalformedInput
    /\ prog = "trainer"
    /\ pc = "exited"
    /\ exitCode = <<1>>
    /\ fs[argv[1].output] = Garbage

\* the result JSON is in the file at path out and nowhere else
ResultInFileOnly(out) ==
    /\ stdout = <<>>
    /\ writes = <<out>>
    /\ fs[out].kind = "text"
    /\ JsonLoads(fs[out].text) = <<JsonValue(result[1])>>

\* the result JSON is the one line of standard output and nowhere else
ResultOnStdoutOnly ==
    /\ writes = <<>>
    /\ Len(stdout) = 1
    /\ "json" \in DOMAIN stdout[1]
    /\ JsonLoads(stdout[1].json) = <<JsonValue(result[1])>>

PredictorSucceeded == PredictorExited /\ ParsedOk /\ exitCode = <<0>>

\* C6 as stated: a run with --output delivers the result in the file only,
\* a run without it on standard output only, and both parse to the value
\* of the result
C6_OutputGivenMeansFile ==
    PredictorSucceeded =>
        IF args[1].output # <<>>
        THEN ResultInFileOnly(args[1].output[1])
        ELSE ResultOnStdoutOnly

\* C6 amended: a run with a non-empty --output delivers the result in the
\* file only, a run with --output absent or empty on standard output only;
\* either way the JSON delivered parses to the value of the result, and
\* standard output carries nothing else
C6_OneDestination ==
    PredictorSucceeded =>
        IF Truthy(args[1].output)
        THEN ResultInFileOnly(args[1].output[1])
        ELSE ResultOnStdoutOnly

C6_Witness ==
    /\ PredictorSucceeded
    /\ Truthy(args[1].output)
    /\ ResultInFileOnly(args[1].output[1])

OutputIsModel ==
    /\ Truthy(argv[1].output)
    /\ argv[1].output[1] = argv[1].model

TrainLabelName(l) ==
    CASE l = 1 -> "buy" [] l = 0 -> "hold" [] l = -1 -> "sell"

\* C8: for a bundle trained on the labels -1, 0, 1 the signal names the
\* predicted class under the training label semantics, and when the largest
\* class probability is unique the signal is the key of the probabilities
\* mapping whose value is the confidence
C8_SignalNamesPredictedClass ==
    ( /\ prog = "predictor"
      /\ result # <<>>
      /\ trainedOn # <<>>
      /\ trainedOn[1] = TrainLabels )
    => /\ result[1].signal = TrainLabelName(predicted[1].prediction)
       /\ Cardinality({k \in Signals :
                          result[1].probabilities[k] = result[1].confidence}) = 1
             => result[1].probabilities[result[1].signal] = result[1].confidence

\* C9: the scaler is fitted once, on the training partition, after the
\* split; the test partition is only transformed with that scaler; the
\* classifier is fitted once, on the scaled training partition; the bundle
\* holds exactly these objects, as they were before the evaluation
C9_NoLeakage ==
    prog = "trainer" =>
        /\ scaler # <<>> =>
              /\ split # <<>>
              /\ scaler[1].fit_on = <<"X_train">>
        /\ scaled # <<>> =>
              /\ {scaled[i].src : i \in DOMAIN scaled} = {"X_train", "X_test"}
              /\ \A i \in DOMAIN scaled : scaled[i].by = scaler[1]
        /\ model # <<>> =>
              /\ Len(model[1].fit_on) = 1
              /\ model[1].fit_on[1].src = "X_train"
              /\ model[1].fit_on[1].by = scaler[1]
              /\ model[1].classes_ = SortedSeq(Classes(split[1].train))
        /\ "save_model" \in Range(steps) =>
              /\ fs[args[1].output].kind = "bundle"
              /\ fs[args[1].output].scaler = scaler[1]
              /\ fs[args[1].output].model = model[1]
              /\ fs[args[1].output].scaler.fit_on = <<"X_train">>

C9_Witness ==
    /\ TrainerExited
    /\ exitCode = <<0>>
    /\ "save_model" \in Range(steps)
    /\ fs[args[1].output].scaler.fit_on = <<"X_train">>
    /\ Classes(split[1].test) # {}

====
